---- MODULE Spec2Model ----
(***************************************************************************)
(* Model of hpc_cluster/plotting.py: the two presenters GridPlot and       *)
(* AggregatePlot, their shared directory discovery (_find_data_dirs), the  *)
(* grid layout derivation and validation of GridPlot, and the plot/savefig *)
(* life cycle of both.                                                     *)
(*                                                                         *)
(* A directory name is a sequence of one-character strings.  The callbacks *)
(* supplied by the caller (preprocess_func, plot_func, aggregate_func) are *)
(* total and are observed through the log `trace'.  The payload files of a *)
(* matched directory are assumed to exist, so hkl.load never raises.       *)
(***************************************************************************)
EXTENDS Integers, Sequences, FiniteSets

VARIABLES
    listing,    \* names of the immediate child directories, in os.walk order
    args,       \* arguments of the constructor call
    status,     \* "none" | "grid" | "agg" | "failed" | "layout"
    stage,      \* position inside GridPlot.__init__ (layout specification)
    self,       \* attributes of the presenter object
    err,        \* exception raised by the last call, "none" if it returned
    lastOp,     \* name of the last call
    trace,      \* callback invocations, in order
    count       \* counters of calls and effects on the drawing surface

vars == <<listing, args, status, stage, self, err, lastOp, trace, count>>

-----------------------------------------------------------------------------
(* Bounds and inputs *)

MaxDirs == 3
MaxDim == 2
MaxCalls == 3
MaxItems == 10
LayoutMaxDim == 4

None == 0

n1 == <<"n", "1">>
n2 == <<"n", "2">>
n3 == <<"n", "3">>
n10 == <<"n", "1", "0">>
n1x == <<"n", "1", "x">>
n1n == <<"n", "1", "n">>
x1 == <<"x", "1">>

DirNames == {n1, n2, n3, n10, n1x, n1n, x1}

Listings ==
    {s \in UNION {[1..k -> DirNames] : k \in 0..MaxDirs} :
        \A i, j \in DOMAIN s : i # j => s[i] # s[j]}

-----------------------------------------------------------------------------
(* Directory discovery: _find_data_dirs (identical in both classes) *)

Digits == {"0", "1", "2", "3", "4", "5", "6", "7", "8", "9"}

DigitVal(c) ==
    CASE c = "0" -> 0 [] c = "1" -> 1 [] c = "2" -> 2 [] c = "3" -> 3
      [] c = "4" -> 4 [] c = "5" -> 5 [] c = "6" -> 6 [] c = "7" -> 7
      [] c = "8" -> 8 [] c = "9" -> 9

\* The first k characters of name are n[1-9]\d*.
PatternMatches(name, k) ==
    /\ 2 <= k /\ k <= Len(name)
    /\ name[1] = "n"
    /\ name[2] \in Digits \ {"0"}
    /\ \A i \in 3..k : name[i] \in Digits

\* re.match(data_dir_match_regexp, str(dir)): the pattern has to match at the
\* start of the name; what follows the match is not looked at.
data_dir_match_regexp(name) == \E k \in 0..Len(name) : PatternMatches(name, k)

\* name.replace("n", "")
RECURSIVE Replace(_)
Replace(s) ==
    IF s = <<>> THEN <<>>
    ELSE IF Head(s) = "n" THEN Replace(Tail(s))
    ELSE <<Head(s)>> \o Replace(Tail(s))

\* int(s) raises ValueError unless s is a non-empty string of digits
\* (over the characters of DirNames).
IntRaises(s) == s = <<>> \/ \E i \in 1..Len(s) : s[i] \notin Digits

RECURSIVE IntVal(_)
IntVal(s) ==
    IF s = <<>> THEN 0
    ELSE IntVal(SubSeq(s, 1, Len(s) - 1)) * 10 + DigitVal(s[Len(s)])

\* key=lambda relative_dir: int(relative_dir.name.replace("n", ""))
SortKey(name) == IntVal(Replace(name))

\* sorted(..., key=...): stable, ascending by key.
RECURSIVE Insert(_, _)
Insert(sorted, x) ==
    IF sorted = <<>> THEN <<x>>
    ELSE IF SortKey(x) < SortKey(Head(sorted)) THEN <<x>> \o sorted
    ELSE <<Head(sorted)>> \o Insert(Tail(sorted), x)

RECURSIVE Sorted(_)
Sorted(s) ==
    IF s = <<>> THEN <<>>
    ELSE Insert(Sorted(SubSeq(s, 1, Len(s) - 1)), s[Len(s)])

\* The result of _find_data_dirs: the exception it raises and the value
\* self.data_dirs is left with.
FindDataDirs(dirs) ==
    LET matched == SelectSeq(dirs, data_dir_match_regexp)
    IN  IF \E i \in 1..Len(matched) : IntRaises(Replace(matched[i]))
        THEN [raised |-> "ValueError", data_dirs |-> matched]
        ELSE IF Len(matched) = 0
        THEN [raised |-> "AssertionError_no_data_dir", data_dirs |-> <<>>]
        ELSE [raised |-> "none", data_dirs |-> Sorted(matched)]

-----------------------------------------------------------------------------
(* Layout: _autoset_layout and _check_layout *)

\* math.ceil(math.sqrt(n)), exact for the small n of the model.
RECURSIVE CeilSqrtFrom(_, _)
CeilSqrtFrom(n, r) == IF r * r >= n THEN r ELSE CeilSqrtFrom(n, r + 1)

CeilSqrt(n) == CeilSqrtFrom(n, 0)

\* math.ceil(a / b) for a >= 0, b > 0
CeilRatio(a, b) == IF a % b = 0 THEN a \div b ELSE a \div b + 1

\* Variant of MissingDimension that adds a row or column even when the
\* division is exact.
MissingDimensionPlusOne(n, given) == n \div given + 1

\* div, rem = divmod(n, given); missing = div + math.ceil(rem / given)

MissingDimension(n, given) ==
    LET div == n \div given
        rem == n % given
    IN  div + CeilRatio(rem, given)

AutosetLayout(n, nrows, ncols) ==
    IF nrows = None /\ ncols = None
    THEN [nrows |-> CeilSqrt(n), ncols |-> CeilSqrt(n)]
    ELSE IF nrows = None
    THEN [nrows |-> MissingDimension(n, ncols), ncols |-> ncols]
    ELSE IF ncols = None
    THEN [nrows |-> nrows, ncols |-> MissingDimension(n, nrows)]
    ELSE [nrows |-> nrows, ncols |-> ncols]

\* Variant of CheckLayout with the two assertions in the other order.
CheckLayoutBalancedOnly(n, nrows, ncols, force) ==
    IF force /\ nrows * ncols # n
    THEN "AssertionError_not_balanced"
    ELSE IF ~(nrows * ncols >= n)
    THEN "AssertionError_grid_too_small"
    ELSE "none"

\* The exception _check_layout raises.
CheckLayout(n, nrows, ncols, force) ==
    IF ~(nrows * ncols >= n)
    THEN "AssertionError_grid_too_small"
    ELSE IF force /\ ~(nrows * ncols = n)
    THEN "AssertionError_not_balanced"
    ELSE "none"

-----------------------------------------------------------------------------
(* Payloads and caller-supplied callbacks *)

\* _read_data_dir: the two payloads of a task directory.
ReadDataDir(d) ==
    [experiment_data |-> [file |-> "experiment_data.hkl", dir |-> d],
     parameters      |-> [file |-> "parameters.hkl", dir |-> d]]

\* preprocess_func: opaque to the presenters, here the pair of its arguments.
PreprocessFunc(experiment_data, parameters) ==
    [preprocessed |-> <<experiment_data, parameters>>]

\* aggregate_func: here the reduction that counts the items.
AggregateFunc(preprocessed_data, parameters) == Len(preprocessed_data)

Event(fn, data, cell, value) ==
    [fn |-> fn, data |-> data, cell |-> cell, value |-> value]

PreprocessEvent(d) ==
    LET rd == ReadDataDir(d)
    IN  Event("preprocess_func", <<rd.experiment_data, rd.parameters>>, <<>>, 0)

Preprocessed(d) ==
    LET rd == ReadDataDir(d)
    IN  PreprocessFunc(rd.experiment_data, rd.parameters)

-----------------------------------------------------------------------------
(* GridPlot.plot *)

Min(a, b) == IF a <= b THEN a ELSE b

\* plt.subplots(nrows, ncols, squeeze=...) returns an array of cells, except
\* that with squeeze (the default) a 1 x 1 grid is returned as the single
\* Axes object, which has no ravel().
AxIsArray(nrows, ncols, squeeze) == ~(squeeze /\ nrows = 1 /\ ncols = 1)

\* self.ax.ravel(): the cells in C order, row index changing slowest.
Ravel(nrows, ncols) ==
    [i \in 1..(nrows * ncols) |-> <<(i - 1) \div ncols, (i - 1) % ncols>>]

\* for data_dir, axis in zip(self.data_dirs, self.ax.ravel()): ...
RECURSIVE GridLoop(_, _, _)
GridLoop(data_dirs, cells, i) ==
    IF i > Min(Len(data_dirs), Len(cells)) THEN <<>>
    ELSE <<PreprocessEvent(data_dirs[i]),
           Event("plot_func", <<Preprocessed(data_dirs[i])>>, cells[i], 0)>>
         \o GridLoop(data_dirs, cells, i + 1)

\* One run of GridPlot.plot: the exception raised and the callbacks invoked.
\* fig.suptitle and plt.tight_layout act on the figure only and invoke no
\* callback.
GridPlotRun(obj, squeeze) ==
    IF AxIsArray(obj.nrows, obj.ncols, squeeze)
    THEN [raised |-> "none",
          events |-> GridLoop(obj.data_dirs, Ravel(obj.nrows, obj.ncols), 1)]
    ELSE [raised |-> "AttributeError", events |-> <<>>]

-----------------------------------------------------------------------------
(* AggregatePlot._preprocess_data, _aggregate_data, plot *)

\* Variant of PreprocessData without the reset of the two lists.
PreprocessDataAccumulating(obj) ==
    [preprocessed_data |->
        obj.preprocessed_data \o
            [i \in 1..Len(obj.data_dirs) |-> Preprocessed(obj.data_dirs[i])],
     parameters |->
        obj.parameters \o
            [i \in 1..Len(obj.data_dirs) |-> ReadDataDir(obj.data_dirs[i]).parameters]]

\* _preprocess_data: both lists are reset, then filled in discovery order.
PreprocessData(obj) ==
    [preprocessed_data |->
        [i \in 1..Len(obj.data_dirs) |-> Preprocessed(obj.data_dirs[i])],
     parameters |->
        [i \in 1..Len(obj.data_dirs) |-> ReadDataDir(obj.data_dirs[i]).parameters]]

\* The single cell of the figure AggregatePlot creates for itself.
OwnAx == <<0, 0>>

\* One run of AggregatePlot.plot: the new attributes and the callbacks invoked.
AggPlotRun(obj) ==
    LET pp == PreprocessData(obj)
        aggregated == AggregateFunc(pp.preprocessed_data, pp.parameters)
    IN  [obj |-> [obj EXCEPT !.preprocessed_data = pp.preprocessed_data,
                             !.parameters = pp.parameters,
                             !.aggregated_data = aggregated],
         events |->
            [i \in 1..Len(obj.data_dirs) |-> PreprocessEvent(obj.data_dirs[i])]
            \o <<Event("aggregate_func",
                       <<pp.preprocessed_data, pp.parameters>>, <<>>, 0),
                 Event("plot_func", <<>>, OwnAx, aggregated)>>]

-----------------------------------------------------------------------------
(* State *)

NoObject ==
    [data_dirs |-> <<>>, n_data_dirs |-> 0, nrows |-> None, ncols |-> None,
     force_balanced_layout |-> FALSE, plotted |-> FALSE, internal_fig |-> FALSE,
     preprocessed_data |-> <<>>, parameters |-> <<>>, aggregated_data |-> 0]

NoArgs == [nrows |-> None, ncols |-> None, force_balanced_layout |-> FALSE, ax |-> "None"]

NoCount ==
    [calls |-> 0, plotRuns |-> 0, userPlots |-> 0, exports |-> 0,
     figSaves |-> 0, warnings |-> 0]

Init ==
    /\ listing \in Listings
    /\ args = NoArgs
    /\ status = "none"
    /\ stage = "none"
    /\ self = NoObject
    /\ err = "none"
    /\ lastOp = "none"
    /\ trace = <<>>
    /\ count = NoCount

-----------------------------------------------------------------------------
(* GridPlot *)

\* GridPlot.__init__
GridInit ==
    /\ status = "none"
    /\ \E nrows \in 0..MaxDim, ncols \in 0..MaxDim, force \in BOOLEAN :
        LET found == FindDataDirs(listing)
            n == Len(found.data_dirs)
            layout == AutosetLayout(n, nrows, ncols)
            bad == CheckLayout(Len(found.data_dirs), layout.nrows, layout.ncols, force)
            obj == [NoObject EXCEPT !.nrows = nrows, !.ncols = ncols,
                                    !.force_balanced_layout = force,
                                    !.data_dirs = found.data_dirs]
        IN  /\ args' = [NoArgs EXCEPT !.nrows = nrows, !.ncols = ncols,
                                      !.force_balanced_layout = force]
            /\ IF found.raised # "none"
               THEN /\ self' = obj
                    /\ err' = found.raised
                    /\ status' = "failed"
               ELSE IF bad # "none"
               THEN /\ self' = [obj EXCEPT !.n_data_dirs = n,
                                           !.nrows = layout.nrows,
                                           !.ncols = layout.ncols]
                    /\ err' = bad
                    /\ status' = "failed"
               ELSE /\ self' = [obj EXCEPT !.n_data_dirs = n,
                                           !.nrows = layout.nrows,
                                           !.ncols = layout.ncols,
                                           !.plotted = FALSE]
                    /\ err' = "none"
                    /\ status' = "grid"
    /\ lastOp' = "GridPlot.__init__"
    /\ UNCHANGED <<listing, stage, trace, count>>

\* GridPlot.plot, called by the user; squeeze may be passed in subplots_kwargs.
GridPlotCall ==
    /\ status = "grid"
    /\ count.calls < MaxCalls
    /\ \E squeeze \in BOOLEAN :
        LET run == GridPlotRun(self, squeeze)
        IN  /\ trace' = trace \o run.events
            /\ err' = run.raised
            /\ self' = IF run.raised = "none"
                       THEN [self EXCEPT !.plotted = TRUE]
                       ELSE self
    /\ count' = [count EXCEPT !.calls = @ + 1, !.plotRuns = @ + 1,
                              !.userPlots = @ + 1]
    /\ lastOp' = "GridPlot.plot"
    /\ UNCHANGED <<listing, args, status, stage>>

\* Variant of GridSavefigPlots that ignores _plotted.
GridSavefigAlwaysPlots(obj) == TRUE

\* if not self._plotted: self.plot()
GridSavefigPlots(obj) == ~obj.plotted

\* GridPlot.savefig
GridSavefig ==
    /\ status = "grid"
    /\ count.calls < MaxCalls
    /\ IF GridSavefigPlots(self)
       THEN LET run == GridPlotRun(self, TRUE)
            IN  /\ trace' = trace \o run.events
                /\ err' = run.raised
                /\ IF run.raised = "none"
                   THEN /\ self' = [self EXCEPT !.plotted = TRUE]
                        /\ count' = [count EXCEPT !.calls = @ + 1,
                                                  !.exports = @ + 1,
                                                  !.plotRuns = @ + 1,
                                                  !.figSaves = @ + 1]
                   ELSE /\ self' = self
                        /\ count' = [count EXCEPT !.calls = @ + 1,
                                                  !.exports = @ + 1,
                                                  !.plotRuns = @ + 1]
       ELSE /\ count' = [count EXCEPT !.calls = @ + 1, !.exports = @ + 1,
                                      !.figSaves = @ + 1]
            /\ err' = "none"
            /\ UNCHANGED <<self, trace>>
    /\ lastOp' = "GridPlot.savefig"
    /\ UNCHANGED <<listing, args, status, stage>>

-----------------------------------------------------------------------------
(* AggregatePlot *)

\* AggregatePlot.__init__.  With ax given, fig is never bound and the
\* assignment self.fig = fig raises UnboundLocalError, before discovery.
AggInit ==
    /\ status = "none"
    /\ \E ax \in {"None", "external"} :
        LET found == FindDataDirs(listing)
        IN  /\ args' = [NoArgs EXCEPT !.ax = ax]
            /\ IF ax # "None"
               THEN /\ self' = [NoObject EXCEPT !.internal_fig = FALSE]
                    /\ err' = "UnboundLocalError"
                    /\ status' = "failed"
               ELSE IF found.raised # "none"
               THEN /\ self' = [NoObject EXCEPT !.internal_fig = TRUE,
                                                !.data_dirs = found.data_dirs]
                    /\ err' = found.raised
                    /\ status' = "failed"
               ELSE /\ self' = [NoObject EXCEPT !.internal_fig = TRUE,
                                                !.data_dirs = found.data_dirs,
                                                !.n_data_dirs = Len(found.data_dirs),
                                                !.plotted = FALSE]
                    /\ err' = "none"
                    /\ status' = "agg"
    /\ lastOp' = "AggregatePlot.__init__"
    /\ UNCHANGED <<listing, stage, trace, count>>

\* AggregatePlot.plot, called by the user.  _plotted is not assigned.
AggPlotCall ==
    /\ status = "agg"
    /\ count.calls < MaxCalls
    /\ LET run == AggPlotRun(self)
       IN  /\ self' = run.obj
           /\ trace' = trace \o run.events
    /\ count' = [count EXCEPT !.calls = @ + 1, !.plotRuns = @ + 1,
                              !.userPlots = @ + 1]
    /\ err' = "none"
    /\ lastOp' = "AggregatePlot.plot"
    /\ UNCHANGED <<listing, args, status, stage>>

\* AggregatePlot.savefig
AggSavefig ==
    /\ status = "agg"
    /\ count.calls < MaxCalls
    /\ IF ~self.internal_fig
       THEN /\ count' = [count EXCEPT !.calls = @ + 1, !.exports = @ + 1,
                                      !.warnings = @ + 1]
            /\ UNCHANGED <<self, trace>>
       ELSE IF ~self.plotted
       THEN LET run == AggPlotRun(self)
            IN  /\ self' = run.obj
                /\ trace' = trace \o run.events
                /\ count' = [count EXCEPT !.calls = @ + 1, !.exports = @ + 1,
                                          !.plotRuns = @ + 1,
                                          !.figSaves = @ + 1]
       ELSE /\ count' = [count EXCEPT !.calls = @ + 1, !.exports = @ + 1,
                                      !.figSaves = @ + 1]
            /\ UNCHANGED <<self, trace>>
    /\ err' = "none"
    /\ lastOp' = "AggregatePlot.savefig"
    /\ UNCHANGED <<listing, args, status, stage>>

Next ==
    \/ GridInit
    \/ GridPlotCall
    \/ GridSavefig
    \/ AggInit
    \/ AggPlotCall
    \/ AggSavefig

Spec == Init /\ [][Next]_vars

-----------------------------------------------------------------------------
(* Layout planning of GridPlot.__init__, step by step, for a root that      *)
(* holds the task directories n1 .. nN.                                     *)

DigitChar(k) ==
    CASE k = 0 -> "0" [] k = 1 -> "1" [] k = 2 -> "2" [] k = 3 -> "3"
      [] k = 4 -> "4" [] k = 5 -> "5" [] k = 6 -> "6" [] k = 7 -> "7"
      [] k = 8 -> "8" [] k = 9 -> "9"

RECURSIVE Decimal(_)
Decimal(k) ==
    IF k < 10 THEN <<DigitChar(k)>>
    ELSE Decimal(k \div 10) \o <<DigitChar(k % 10)>>

\* RUN_OUTPUT_DIR=.../n${SGE_TASK_ID}
TaskDirName(k) == <<"n">> \o Decimal(k)

InitLayout ==
    /\ \E n \in 1..MaxItems :
        /\ listing = [i \in 1..n |-> TaskDirName(i)]
        /\ \E nrows \in 0..LayoutMaxDim, ncols \in 0..LayoutMaxDim, force \in BOOLEAN :
            /\ args = [NoArgs EXCEPT !.nrows = nrows, !.ncols = ncols,
                                     !.force_balanced_layout = force]
            /\ self = [NoObject EXCEPT !.nrows = nrows, !.ncols = ncols,
                                       !.force_balanced_layout = force]
    /\ status = "layout"
    /\ stage = "find_data_dirs"
    /\ err = "none"
    /\ lastOp = "none"
    /\ trace = <<>>
    /\ count = NoCount

\* self._find_data_dirs(); self.n_data_dirs = len(self.data_dirs)
LayoutFindDataDirs ==
    /\ status = "layout"
    /\ stage = "find_data_dirs"
    /\ LET found == FindDataDirs(listing)
       IN  /\ self' = [self EXCEPT !.data_dirs = found.data_dirs,
                                   !.n_data_dirs = Len(found.data_dirs)]
           /\ err' = found.raised
           /\ stage' = IF found.raised = "none" THEN "autoset_layout" ELSE "raised"
    /\ lastOp' = "_find_data_dirs"
    /\ UNCHANGED <<listing, args, status, trace, count>>

\* self._autoset_layout()
LayoutAutoset ==
    /\ status = "layout"
    /\ stage = "autoset_layout"
    /\ LET layout == AutosetLayout(self.n_data_dirs, self.nrows, self.ncols)
       IN  self' = [self EXCEPT !.nrows = layout.nrows, !.ncols = layout.ncols]
    /\ stage' = "check_layout"
    /\ lastOp' = "_autoset_layout"
    /\ UNCHANGED <<listing, args, status, err, trace, count>>

\* self._check_layout()
LayoutCheck ==
    /\ status = "layout"
    /\ stage = "check_layout"
    /\ err' = CheckLayout(Len(self.data_dirs), self.nrows, self.ncols,
                          self.force_balanced_layout)
    /\ stage' = IF err' = "none" THEN "constructed" ELSE "raised"
    /\ lastOp' = "_check_layout"
    /\ UNCHANGED <<listing, args, status, self, trace, count>>

NextLayout ==
    \/ LayoutFindDataDirs
    \/ LayoutAutoset
    \/ LayoutCheck

SpecLayout == InitLayout /\ [][NextLayout]_vars

-----------------------------------------------------------------------------
(* Properties *)

\* A task directory in the sense of the specification: the whole name is the
\* marker followed by a positive integer without leading zero.
AnchoredMatch(name) == PatternMatches(name, Len(name))

QualifyingCount(dirs) == Len(SelectSeq(dirs, AnchoredMatch))

\* _find_data_dirs has been entered by the constructor.
DiscoveryRan ==
    \/ status \in {"grid", "agg"}
    \/ status = "failed" /\ err # "UnboundLocalError"

DiscoveryRaised ==
    status = "failed" /\ err \in {"ValueError", "AssertionError_no_data_dir"}

StrictlyAscending(dirs) ==
    \A i \in 1..(Len(dirs) - 1) : SortKey(dirs[i]) < SortKey(dirs[i + 1])

\* C1: whenever the root holds k >= 1 qualifying task directories, discovery
\* returns exactly k entries, sorted strictly ascending by task number (so no
\* two entries have the same number), whatever the listing order.
C1_DiscoverySortedExactlyK ==
    (DiscoveryRan /\ QualifyingCount(listing) >= 1) =>
        /\ ~DiscoveryRaised
        /\ Len(self.data_dirs) = QualifyingCount(listing)
        /\ StrictlyAscending(self.data_dirs)

\* C2: a child directory whose whole name is not marker + positive integer is
\* skipped: it is never part of the discovery result and never makes
\* discovery raise.
C2_StrictAnchoredMatch ==
    DiscoveryRan =>
        /\ err # "ValueError"
        /\ \A i \in 1..Len(self.data_dirs) : AnchoredMatch(self.data_dirs[i])

\* C3: constructing an AggregatePlot with an external ax succeeds whenever
\* discovery succeeds, and the presenter then does not own a drawing surface.
C3_ExternalAxConstructs ==
    (/\ lastOp = "AggregatePlot.__init__"
     /\ args.ax = "external"
     /\ FindDataDirs(listing).raised = "none") =>
        (status = "agg" /\ ~self.internal_fig)

\* C4: for an AggregatePlot that owns its surface, plot marks the presenter
\* as presented, and in a sequence of savefig calls plot runs exactly once
\* while each savefig serializes the surface once.
C4_AggregatePresentsOnce ==
    (status = "agg" /\ self.internal_fig) =>
        /\ count.userPlots >= 1 => self.plotted
        /\ (count.userPlots = 0 /\ count.exports >= 1) => count.plotRuns = 1
        /\ count.figSaves = count.exports

\* C5: GridPlot.savefig runs plot exactly when the presenter is not yet
\* presented: once presented, a savefig neither runs plot nor invokes a
\* callback again, and a plot or savefig that returns leaves the presenter
\* presented.
C5_GridExportIdempotent ==
    [][(status = "grid" /\ count'.calls = count.calls + 1) =>
        /\ (lastOp' = "GridPlot.savefig" /\ self.plotted) =>
              /\ count'.plotRuns = count.plotRuns
              /\ trace' = trace
              /\ count'.figSaves = count.figSaves + 1
              /\ self'.plotted
        /\ (lastOp' = "GridPlot.savefig" /\ ~self.plotted) =>
              count'.plotRuns = count.plotRuns + 1
        /\ err' = "none" => self'.plotted]_vars

C5_Witness ==
    /\ status = "grid"
    /\ lastOp = "GridPlot.savefig"
    /\ self.plotted
    /\ count.exports >= 2
    /\ count.userPlots = 0
    /\ count.plotRuns = 1
    /\ self.n_data_dirs = 3
    /\ Len(trace) = 6

\* C6: _check_layout raises the too-small error iff rows * cols < item_count,
\* with or without force_balanced_layout and before the balance check; it
\* raises the not-balanced error iff force_balanced_layout holds and
\* rows * cols > item_count; otherwise the constructor returns.
C6_CheckLayout ==
    (status = "layout" /\ lastOp = "_check_layout") =>
        LET cells == self.nrows * self.ncols
            n == self.n_data_dirs
        IN  /\ self.nrows >= 1 /\ self.ncols >= 1 /\ n >= 1
            /\ err = "AssertionError_grid_too_small" <=> cells < n
            /\ err = "AssertionError_not_balanced" <=>
                   (self.force_balanced_layout /\ cells > n)
            /\ err = "none" <=>
                   (cells >= n /\ (self.force_balanced_layout => cells = n))
            /\ stage = "constructed" <=> err = "none"
            /\ stage = "constructed" =>
                   (cells >= n /\ (self.force_balanced_layout => cells = n))

C6_Witness ==
    /\ status = "layout"
    /\ lastOp = "_check_layout"
    /\ self.n_data_dirs = 5
    /\ self.nrows = 2
    /\ self.ncols = 2
    /\ self.force_balanced_layout
    /\ err = "AssertionError_grid_too_small"

\* C7: _autoset_layout gives rows = cols = ceil(sqrt(item_count)) when neither
\* is given, the least missing dimension with rows * cols >= item_count when
\* one is given, and leaves both unchanged when both are given.
C7_AutosetLayout ==
    (status = "layout" /\ lastOp \in {"_autoset_layout", "_check_layout"}) =>
        LET n == self.n_data_dirs
            r == self.nrows
            c == self.ncols
        IN  /\ n = Len(listing)
            /\ (args.nrows = None /\ args.ncols = None) =>
                  (r = c /\ r * r >= n /\ (r - 1) * (r - 1) < n)
            /\ (args.nrows = None /\ args.ncols # None) =>
                  (c = args.ncols /\ r * c >= n /\ (r - 1) * c < n)
            /\ (args.nrows # None /\ args.ncols = None) =>
                  (r = args.nrows /\ r * c >= n /\ r * (c - 1) < n)
            /\ (args.nrows # None /\ args.ncols # None) =>
                  (r = args.nrows /\ c = args.ncols)

C7_Witness ==
    /\ status = "layout"
    /\ lastOp = "_autoset_layout"
    /\ self.n_data_dirs = 10
    /\ args.nrows = None
    /\ args.ncols = 3
    /\ self.nrows = 4
    /\ self.ncols = 3

\* C8: every run of GridPlot.plot invokes the preprocessing and the drawing
\* callback once per discovered directory, in discovery order, the i-th
\* (0-based) on cell (i div cols, i mod cols); the remaining cells are not
\* drawn on.
C8_GridPlacement ==
    (status = "grid" /\ count.plotRuns >= 1) =>
        LET n == Len(self.data_dirs)
        IN  /\ Len(trace) = count.plotRuns * 2 * n
            /\ \A r \in 0..(count.plotRuns - 1) : \A i \in 1..n :
                /\ trace[r * 2 * n + 2 * i - 1] = PreprocessEvent(self.data_dirs[i])
                /\ trace[r * 2 * n + 2 * i] =
                      Event("plot_func", <<Preprocessed(self.data_dirs[i])>>,
                            <<(i - 1) \div self.ncols, (i - 1) % self.ncols>>, 0)

\* C9: on a root without qualifying task directories, constructing either
\* presenter raises the empty-discovery error, before layout planning and
\* before any callback.
C9_EmptyDiscoveryRaises ==
    (status \in {"grid", "agg", "failed"} /\ QualifyingCount(listing) = 0) =>
        /\ status = "failed"
        /\ err = "AssertionError_no_data_dir"
        /\ trace = <<>>
        /\ self.nrows = args.nrows /\ self.ncols = args.ncols

\* C10: after any number of AggregatePlot.plot runs, preprocessed_data and
\* parameters have one entry per discovered directory, index-aligned in
\* discovery order (nothing accumulates across runs), and each run called
\* preprocess_func once per directory, then aggregate_func once on these two
\* sequences, then plot_func once on its result.
C10_AggregateAligned ==
    (status = "agg" /\ count.plotRuns >= 1) =>
        LET n == self.n_data_dirs
        IN  /\ n = Len(self.data_dirs)
            /\ Len(self.preprocessed_data) = n
            /\ Len(self.parameters) = n
            /\ \A i \in 1..n :
                /\ self.preprocessed_data[i] = Preprocessed(self.data_dirs[i])
                /\ self.parameters[i] = ReadDataDir(self.data_dirs[i]).parameters
            /\ self.aggregated_data = n
            /\ Len(trace) = count.plotRuns * (n + 2)
            /\ \A r \in 0..(count.plotRuns - 1) :
                /\ \A i \in 1..n :
                      trace[r * (n + 2) + i] = PreprocessEvent(self.data_dirs[i])
                /\ trace[r * (n + 2) + n + 1] =
                      Event("aggregate_func",
                            <<self.preprocessed_data, self.parameters>>, <<>>, 0)
                /\ trace[r * (n + 2) + n + 2] = Event("plot_func", <<>>, OwnAx, n)

C10_Witness ==
    /\ status = "agg"
    /\ count.plotRuns = 2
    /\ count.userPlots = 2
    /\ self.n_data_dirs = 3
    /\ Len(self.preprocessed_data) = 3
    /\ trace[Len(trace)] = Event("plot_func", <<>>, OwnAx, 3)

====
